---- MODULE Spec2Model ----
(***************************************************************************)
(* Model of the crossy-road world simulation (src/src/crossy): terrain     *)
(* generation, per-row hazard generation, hazard motion, collision and     *)
(* ride queries and the GameState machine.                                 *)
(*                                                                         *)
(* Numbers.  The program computes with floats; the model computes with     *)
(* exact fixed-point integers:                                             *)
(*   - horizontal positions, widths and scroll_y are counted in 1/Q of a   *)
(*     cell (Q = 8, so the 0.25 ride threshold is two units);              *)
(*   - time is counted in 1/T of a second (T = 1), so a speed of s cells   *)
(*     per second is s*Q/T units per time unit;                            *)
(*   - progress (a float in [0,1]) is the pair ProgNum(row)/Playable.      *)
(* The world is scaled down (GRID_WIDTH, PlayableRows); the source values  *)
(* are named where each is defined.                                        *)
(*                                                                         *)
(* Randomness.  Every call of the random module is an explicit draw: a     *)
(* raw variate v, turned into the call's result by RandomLess, RandInt,    *)
(* ChoiceDir or Uniform.  A session draws from one of NumSeeds scripted     *)
(* sources                                                                 *)
(* (Draw); the generator's own specification draws every variate with \E.  *)
(***************************************************************************)
EXTENDS Integers, Sequences, FiniteSets, TLC

VARIABLES
    state,          \* GameState.state
    player,         \* GameState.player: [x, y, max_row]
    rows,           \* GameState.terrain_manager.rows
    obstacles,      \* GameState.obstacle_manager.obstacles (a list)
    trees,          \* GameState.obstacle_manager.trees (a list)
    train_tracks,   \* GameState.obstacle_manager.train_tracks (row -> track)
    high_score,     \* GameState.high_score
    scroll_y,       \* GameState.scroll_y
    gen             \* the locals of one run of TerrainManager._generate_terrain

vars == <<state, player, rows, obstacles, trees, train_tracks, high_score,
          scroll_y, gen>>

gameVars == <<state, player, rows, obstacles, trees, train_tracks, high_score,
              scroll_y>>

-----------------------------------------------------------------------------
(* Units and bounds *)

Q == 8                  \* position units per cell: 1 unit = 0.125 cell
T == 1                  \* time units per second: 1 unit = 1 s

GRID_WIDTH == 4         \* config.py:10 sets 20; scaled world
PlayableRows == 2       \* TOTAL_ROWS - 5; config.py:12 sets TOTAL_ROWS = 100
SAFE_ROWS == 5          \* terrain.py:164 safe_rows, obstacles.py:26
GRID_HEIGHT == 15       \* config.py:11
MaxDt == 2              \* update(dt) is called with dt in 1..MaxDt time units
NumSeeds == 6          \* scripted random sources a session may draw from
M == 16                 \* a raw variate v in 0..M-1 stands for random() = v/M
MaxGenRows == 4         \* playable rows of the generator's own specification

TOTAL_ROWS == SAFE_ROWS + PlayableRows
PLAYER_START_X == GRID_WIDTH \div 2
PLAYER_START_Y == TOTAL_ROWS - 3

TERRAIN_GRASS == "grass"
TERRAIN_ROAD == "road"
TERRAIN_RIVER == "river"
TERRAIN_TRAIN == "train"
TerrainTypes == {TERRAIN_GRASS, TERRAIN_ROAD, TERRAIN_RIVER, TERRAIN_TRAIN}
Dangerous == {TERRAIN_ROAD, TERRAIN_RIVER, TERRAIN_TRAIN}

STATE_START == "start"
STATE_PLAYING == "playing"
STATE_GAME_OVER == "game_over"

Max(a, b) == IF a >= b THEN a ELSE b
Min(a, b) == IF a <= b THEN a ELSE b

-----------------------------------------------------------------------------
(* The random module *)

Rolls == 0 .. (M - 1)

\* random.random() < num/den, for the variate v (random() = v/M)
RandomLess(v, num, den) == v * den < num * M

\* random.randint(a, b)
RandInt(a, b, v) == a + (v % (b - a + 1))

\* random.choice([-1, 1])
ChoiceDir(v) == IF v % 2 = 0 THEN -1 ELSE 1

\* random.uniform(lo/den, hi/den) on the integer grid: v = 0 gives the least grid
\* point of the interval, v = M-1 the greatest
CeilDiv(a, b) == -((-a) \div b)
Uniform(lo, hi, den, v) ==
    LET a == CeilDiv(lo, den)
        b == hi \div den
    IN  a + (v * (b - a)) \div (M - 1)

\* The draws of one row's generation are named by a tag and an index
Tags == {"pick", "break", "grass_size", "cluster", "count", "speed", "dir", "x",
         "type", "roll", "timer"}
TagNum(tag) ==
    CASE tag = "pick" -> 0
      [] tag = "break" -> 1
      [] tag = "grass_size" -> 2
      [] tag = "cluster" -> 3
      [] tag = "count" -> 4
      [] tag = "speed" -> 5
      [] tag = "dir" -> 6
      [] tag = "x" -> 7
      [] tag = "type" -> 8
      [] tag = "roll" -> 9
      [] tag = "timer" -> 10

\* Draw number (row, tag, i) of the scripted source `seed`: a fixed variate
Draw(seed, row, tag, i) ==
    (((seed * 37 + row * 11 + TagNum(tag) * 5 + i * 3 + 7)
        * (seed * 13 + row * 29 + TagNum(tag) * 17 + i * 23 + 19)) % 971) \div 3 % M

Seeds == 0 .. (NumSeeds - 1)

-----------------------------------------------------------------------------
(* terrain.py: TerrainManager *)

\* progress = ProgNum(row, total) / Playable(total), clamped to [0, 1]
Playable(total) == total - SAFE_ROWS
ProgNum(row, total) == Max(0, Min(Playable(total), Playable(total) - row))

\* _get_terrain_probabilities: the four weights as numerators over ProbDen
ProbDen(total) == 560 * Playable(total)

RoadProb(row, total) ==
    LET n == ProgNum(row, total)  p == Playable(total) IN
    IF n > 0 THEN 280 * p - 84 * n ELSE 280 * p

\* A faulty river weight that keeps growing after river_intro reaches 1
RiverProbUncapped(row, total) ==
    LET n == ProgNum(row, total)  p == Playable(total) IN
    IF n > 0 /\ 20 * n > 3 * p THEN 20 * (20 * n - 3 * p) ELSE 0

RiverProb(row, total) ==
    LET n == ProgNum(row, total)  p == Playable(total) IN
    IF n > 0 /\ 20 * n > 3 * p
    THEN \* river_intro = min(1, (progress - 0.15) / 0.35), river_prob = 0.25 * intro
         Min(140 * p, 20 * (20 * n - 3 * p))
    ELSE 0

TrainProb(row, total) ==
    LET n == ProgNum(row, total)  p == Playable(total) IN
    IF n > 0 /\ 20 * n > 7 * p
    THEN \* train_intro = min(1, (progress - 0.35) / 0.40), train_prob = 0.10 * intro
         Min(56 * p, 7 * (20 * n - 7 * p))
    ELSE 0

GrassProb(row, total) ==
    LET n == ProgNum(row, total)  p == Playable(total) IN
    IF n > 0
    THEN ProbDen(total) - RoadProb(row, total) - RiverProb(row, total)
            - TrainProb(row, total)
    ELSE 280 * p

\* _pick_terrain_type: inverse CDF in dict order grass, road, river, train
PickTerrainType(row, total, v) ==
    LET d == ProbDen(total)
        c1 == GrassProb(row, total)
        c2 == c1 + RoadProb(row, total)
        c3 == c2 + RiverProb(row, total)
        c4 == c3 + TrainProb(row, total)
    IN  IF RandomLess(v, c1, d) THEN TERRAIN_GRASS
        ELSE IF RandomLess(v, c2, d) THEN TERRAIN_ROAD
        ELSE IF RandomLess(v, c3, d) THEN TERRAIN_RIVER
        ELSE IF RandomLess(v, c4, d) THEN TERRAIN_TRAIN
        ELSE TERRAIN_GRASS

\* A faulty cluster size that lets a Rail cluster span two rows
GetClusterSizeRailPair(terrain_type, row, total, v) ==
    LET n == ProgNum(row, total)  p == Playable(total) IN
    IF terrain_type = TERRAIN_GRASS THEN RandInt(1, 2, v)
    ELSE IF terrain_type \in {TERRAIN_ROAD, TERRAIN_RIVER}
         THEN IF 10 * n < 3 * p THEN 1
              ELSE IF 10 * n < 6 * p THEN RandInt(1, 2, v)
              ELSE RandInt(1, 3, v)
    ELSE RandInt(1, 2, v)

\* _get_cluster_size, v the variate of its randint
GetClusterSize(terrain_type, row, total, v) ==
    LET n == ProgNum(row, total)  p == Playable(total) IN
    IF terrain_type = TERRAIN_GRASS THEN RandInt(1, 2, v)
    ELSE IF terrain_type \in {TERRAIN_ROAD, TERRAIN_RIVER}
         THEN IF 10 * n < 3 * p THEN 1
              ELSE IF 10 * n < 6 * p THEN RandInt(1, 2, v)
              ELSE RandInt(1, 3, v)
    ELSE 1

TerrainRow(row_num, terrain_type) ==
    [row_num |-> row_num, terrain_type |-> terrain_type]

\* for i in range(size): rows.append(TerrainRow(current_row - i, type)) if >= 0
RECURSIVE AppendCluster(_, _, _, _, _)
AppendCluster(rs, current_row, size, terrain_type, i) ==
    IF i >= size THEN rs
    ELSE AppendCluster(
            IF current_row - i >= 0
            THEN Append(rs, TerrainRow(current_row - i, terrain_type))
            ELSE rs,
            current_row, size, terrain_type, i + 1)

\* lines 163-170: the safe rows and the loop's initial locals
RECURSIVE SafeRows(_, _)
SafeRows(i, total) ==
    IF i >= total THEN <<>>
    ELSE <<TerrainRow(i, TERRAIN_GRASS)>> \o SafeRows(i + 1, total)

GenStart(total) ==
    [rows |-> SafeRows(total - SAFE_ROWS, total),
     current_row |-> total - SAFE_ROWS - 1,
     last_terrain_type |-> TERRAIN_GRASS,
     total |-> total,
     terrain_type |-> "none",   \* the loop's local: the type drawn by the last pass
     pc |-> "loop",
     clipped |-> FALSE,     \* history: some min(size, current_row + 1) cut a size
     broke |-> FALSE,       \* history: some grass break was inserted
     forced |-> TRUE]       \* history: every grass-break roll so far succeeded

\* random.random() < grass_break_chance, with grass_break_chance =
\* 1 - 0.5 * progress and vb the variate
BreakRoll(g, vb) ==
    RandomLess(vb, 2 * Playable(g.total) - ProgNum(g.current_row, g.total),
               2 * Playable(g.total))

\* A faulty break decision that only separates two clusters of the same type
BreakTakenSameTypeOnly(g, terrain_type, vb) ==
    /\ terrain_type \in Dangerous
    /\ g.last_terrain_type = terrain_type
    /\ BreakRoll(g, vb)

\* whether the grass break of lines 182-187 is taken
BreakTaken(g, terrain_type, vb) ==
    /\ terrain_type \in Dangerous
    /\ g.last_terrain_type \in Dangerous
    /\ BreakRoll(g, vb)

\* lines 188-197: the grass break
GrassBreak(g, vg) ==
    LET grass_size == Min(RandInt(1, 2, vg), g.current_row + 1) IN
    [g EXCEPT !.rows = AppendCluster(g.rows, g.current_row, grass_size,
                                     TERRAIN_GRASS, 0),
              !.current_row = g.current_row - grass_size,
              !.last_terrain_type = TERRAIN_GRASS,
              !.clipped = @ \/ RandInt(1, 2, vg) > g.current_row + 1,
              !.broke = TRUE]

\* A faulty cluster that always moves current_row up by one row, whatever its
\* size: the rows of a longer cluster are then assigned a second time
PlaceClusterStepOne(g, terrain_type, vc) ==
    LET cluster_size == Min(GetClusterSize(terrain_type, g.current_row, g.total, vc),
                            g.current_row + 1) IN
    [g EXCEPT !.rows = AppendCluster(g.rows, g.current_row, cluster_size,
                                     terrain_type, 0),
              !.current_row = g.current_row - 1,
              !.last_terrain_type = terrain_type,
              !.clipped = @ \/ GetClusterSize(terrain_type, g.current_row, g.total, vc)
                                  > g.current_row + 1]

\* lines 199-209: the cluster
PlaceCluster(g, terrain_type, vc) ==
    LET cluster_size == Min(GetClusterSize(terrain_type, g.current_row, g.total, vc),
                            g.current_row + 1) IN
    [g EXCEPT !.rows = AppendCluster(g.rows, g.current_row, cluster_size,
                                     terrain_type, 0),
              !.current_row = g.current_row - cluster_size,
              !.last_terrain_type = terrain_type,
              !.clipped = @ \/ GetClusterSize(terrain_type, g.current_row, g.total, vc)
                                  > g.current_row + 1]

\* one pass of the while loop (lines 172-209) with its four variates
LoopBody(g, vp, vb, vg, vc) ==
    LET terrain_type == PickTerrainType(g.current_row, g.total, vp)
        rolled == terrain_type \in Dangerous /\ g.last_terrain_type \in Dangerous
        drawn == [g EXCEPT !.terrain_type = terrain_type,
                           !.forced = @ /\ (rolled => BreakRoll(g, vb))]
    IN  IF BreakTaken(g, terrain_type, vb)
        THEN GrassBreak(drawn, vg)      \* ... continue: the next pass draws again
        ELSE PlaceCluster(drawn, terrain_type, vc)

\* rows.sort(key=lambda r: r.row_num): a stable sort, so the place of rs[i] is
\* the number of rows with a smaller key, or with the same key and not after it
SortRank(rs, i) ==
    Cardinality({j \in 1 .. Len(rs) :
        \/ rs[j].row_num < rs[i].row_num
        \/ rs[j].row_num = rs[i].row_num /\ j <= i})

SortRows(rs) ==
    [k \in 1 .. Len(rs) |-> rs[CHOOSE i \in 1 .. Len(rs) : SortRank(rs, i) = k]]

\* _generate_terrain run to its end with the draws of the scripted source
RECURSIVE RunLoop(_, _)
RunLoop(g, seed) ==
    IF g.current_row < 0 THEN g
    ELSE RunLoop(LoopBody(g, Draw(seed, g.current_row, "pick", 0),
                             Draw(seed, g.current_row, "break", 0),
                             Draw(seed, g.current_row, "grass_size", 0),
                             Draw(seed, g.current_row, "cluster", 0)), seed)

GenerateTerrain(total, seed) == SortRows(RunLoop(GenStart(total), seed).rows)

\* get_terrain_at
GetTerrainAt(rs, grid_y) ==
    IF 0 <= grid_y /\ grid_y < Len(rs) THEN rs[grid_y + 1].terrain_type ELSE "none"

-----------------------------------------------------------------------------
(* The generator run step by step, every variate drawn freely *)

GenIdle == [rows |-> <<>>, current_row |-> -1, last_terrain_type |-> TERRAIN_GRASS,
            total |-> 0, terrain_type |-> "none", pc |-> "idle", clipped |-> FALSE,
            broke |-> FALSE, forced |-> TRUE]

GenInit ==
    /\ \E total \in (SAFE_ROWS + 1) .. (SAFE_ROWS + MaxGenRows) : gen = GenStart(total)
    /\ state = STATE_START
    /\ player = [x |-> 0, y |-> 0, max_row |-> 0]
    /\ rows = <<>>
    /\ obstacles = <<>>
    /\ trees = <<>>
    /\ train_tracks = <<>>
    /\ high_score = 0
    /\ scroll_y = 0

\* The variates of one pass, one per distinct outcome of the draw it feeds: the
\* least variate of each class of random() or randint() values that the pass
\* cannot tell apart.
PickDraws(g) ==
    {v \in Rolls : \A u \in 0 .. (v - 1) :
        PickTerrainType(g.current_row, g.total, u)
            # PickTerrainType(g.current_row, g.total, v)}

BreakDraws(g, vp) ==
    LET terrain_type == PickTerrainType(g.current_row, g.total, vp) IN
    {v \in Rolls : \A u \in 0 .. (v - 1) :
        BreakTaken(g, terrain_type, u) # BreakTaken(g, terrain_type, v)}

ClusterDraws(g, vp) ==
    LET terrain_type == PickTerrainType(g.current_row, g.total, vp) IN
    {v \in 0 .. 5 : \A u \in 0 .. (v - 1) :
        GetClusterSize(terrain_type, g.current_row, g.total, u)
            # GetClusterSize(terrain_type, g.current_row, g.total, v)}

GenLoop ==
    /\ gen.pc = "loop"
    /\ gen.current_row >= 0
    /\ \E vp \in PickDraws(gen) :
          \E vb \in BreakDraws(gen, vp), vg \in 0 .. 1, vc \in ClusterDraws(gen, vp) :
             gen' = LoopBody(gen, vp, vb, vg, vc)
    /\ UNCHANGED gameVars

GenSort ==
    /\ gen.pc = "loop"
    /\ gen.current_row < 0
    /\ gen' = [gen EXCEPT !.rows = SortRows(gen.rows), !.pc = "done"]
    /\ UNCHANGED gameVars

GenNext == GenLoop \/ GenSort

SpecTerrain == GenInit /\ [][GenNext]_vars

\* _generate_terrain is one synchronous call: its loop is never suspended
SpecTerrainFair == SpecTerrain /\ WF_vars(GenNext)

\* The same generator on longer worlds, where clusters of three rows fit
MaxWideRows == 6

GenInitWide ==
    /\ \E total \in (SAFE_ROWS + 1) .. (SAFE_ROWS + MaxWideRows) :
          gen = GenStart(total)
    /\ state = STATE_START
    /\ player = [x |-> 0, y |-> 0, max_row |-> 0]
    /\ rows = <<>>
    /\ obstacles = <<>>
    /\ trees = <<>>
    /\ train_tracks = <<>>
    /\ high_score = 0
    /\ scroll_y = 0

SpecTerrainWide == GenInitWide /\ [][GenNext]_vars

-----------------------------------------------------------------------------
(* obstacles.py: hazards *)

CAR_SPEED_MIN == 1      \* cells per second
CAR_SPEED_MAX == 3
LOG_SPEED_MIN_X2 == 1   \* LOG_SPEED_MIN = 0.5, doubled
LOG_SPEED_MAX == 2
TRAIN_SPEED == 8
TRAIN_WIDTH == 25       \* cells
TRAIN_SPAWN_INTERVAL_MIN == 5   \* seconds
TRAIN_SPAWN_INTERVAL_MAX == 10
TRAIN_WARNING_TIME == 2

W == GRID_WIDTH * Q                 \* GRID_WIDTH in position units
LOG_WIDTH == (5 * Q) \div 2         \* Log.__init__ width=2.5
TRAIN_WIDTH_U == TRAIN_WIDTH * Q
TRAIN_SPEED_U == (TRAIN_SPEED * Q) \div T

CarKinds == {"SmartCar", "Sedan", "Truck"}
CarWidth(kind) ==
    CASE kind = "SmartCar" -> 1 * Q
      [] kind = "Sedan" -> 2 * Q
      [] kind = "Truck" -> 3 * Q

\* Obstacle.__init__
Obstacle(kind, x, y, speed, direction, width) ==
    [kind |-> kind, x |-> x, y |-> y, speed |-> speed, direction |-> direction,
     width |-> width]

Train(x, y, direction) == Obstacle("Train", x, y, TRAIN_SPEED_U, direction, TRAIN_WIDTH_U)

\* A faulty update that turns a hazard around at its exit edge
ObstacleUpdateBounce(o, dt) ==
    LET x1 == o.x + o.speed * o.direction * dt IN
    IF o.direction > 0 /\ x1 > W + o.width THEN [o EXCEPT !.direction = -1]
    ELSE IF o.direction < 0 /\ x1 < -o.width THEN [o EXCEPT !.direction = 1]
    ELSE [o EXCEPT !.x = x1]

\* An update that wraps modulo the span GRID_WIDTH + 2 * width, keeping the overshoot
ObstacleUpdateModular(o, dt) ==
    LET x1 == o.x + o.speed * o.direction * dt IN
    IF o.direction > 0 /\ x1 > W + o.width THEN [o EXCEPT !.x = x1 - (W + 2 * o.width)]
    ELSE IF o.direction < 0 /\ x1 < -o.width THEN [o EXCEPT !.x = x1 + (W + 2 * o.width)]
    ELSE [o EXCEPT !.x = x1]

\* A faulty update that wraps one obstacle width later than the track looks
ObstacleUpdateWrapLate(o, dt) ==
    LET x1 == o.x + o.speed * o.direction * dt IN
    IF o.direction > 0 /\ x1 > W + 2 * o.width THEN [o EXCEPT !.x = -o.width]
    ELSE IF o.direction < 0 /\ x1 < -2 * o.width THEN [o EXCEPT !.x = W + o.width]
    ELSE [o EXCEPT !.x = x1]

\* Obstacle.update
ObstacleUpdate(o, dt) ==
    LET x1 == o.x + o.speed * o.direction * dt IN
    IF o.direction > 0 /\ x1 > W + o.width THEN [o EXCEPT !.x = -o.width]
    ELSE IF o.direction < 0 /\ x1 < -o.width THEN [o EXCEPT !.x = W + o.width]
    ELSE [o EXCEPT !.x = x1]

\* get_progress(row_y) = GameProgNum(row_y) / GamePlayable
GamePlayable == TOTAL_ROWS - SAFE_ROWS
GameProgNum(row_y) == Max(0, Min(GamePlayable, GamePlayable - row_y))

\* The draws of one generate_for_row call: a function of <<tag, index>>
MaxDrawIndex == 5
DrawKeys == Tags \X (0 .. MaxDrawIndex)
SeedDraws(seed, row) == [k \in DrawKeys |-> Draw(seed, row, k[1], k[2])]

\* random.choices([SmartCar, Sedan, Truck], weights=[0.5-0.1p, 0.4, 0.1+0.2p])
CarType(n, p, v) ==
    LET smart == 5 * p - n
        sedan == 4 * p
        truck == p + 2 * n
        total == smart + sedan + truck
    IN  IF v * total < smart * M THEN "SmartCar"
        ELSE IF v * total < (smart + sedan) * M THEN "Sedan"
        ELSE "Truck"

\* generate_for_row, TERRAIN_ROAD branch (lines 292-324): the cars in list order
RoadCars(row_y, d) ==
    LET n == GameProgNum(row_y)
        p == GamePlayable
        min_cars == 1 + n \div p
        max_cars == 2 + (3 * n) \div p
        num_cars == RandInt(min_cars, max_cars, d[<<"count", 0>>])
        speed == Uniform(CAR_SPEED_MIN * Q * (8 * p + 2 * n),
                         Q * (CAR_SPEED_MIN * 10 * p
                              + (CAR_SPEED_MAX - CAR_SPEED_MIN) * (5 * p + 5 * n)),
                         10 * p * T, d[<<"speed", 0>>])
        direction == ChoiceDir(d[<<"dir", 0>>])
        car(i) ==
            LET x0 == Uniform(W * (10 * i - 3), W * (10 * i + 3), 10 * num_cars,
                              d[<<"x", i>>])
                x == IF direction < 0 THEN W - x0 ELSE x0
                kind == CarType(n, p, d[<<"type", i>>])
            IN  Obstacle(kind, x, row_y, speed, direction, CarWidth(kind))
    IN  [i \in 1 .. num_cars |-> car(i - 1)]

\* generate_for_row, TERRAIN_RIVER branch (lines 326-347): the logs in list order
\* A faulty river whose logs alternate in direction
RiverLogsAlternating(row_y, d) ==
    LET n == GameProgNum(row_y)
        p == GamePlayable
        min_logs == Max(2, 3 - n \div p)
        max_logs == Max(3, 4 - n \div p)
        num_logs == RandInt(min_logs, max_logs, d[<<"count", 0>>])
        speed == Uniform(LOG_SPEED_MIN_X2 * Q * (8 * p + 4 * n),
                         Q * (LOG_SPEED_MIN_X2 * 10 * p
                              + (2 * LOG_SPEED_MAX - LOG_SPEED_MIN_X2) * (6 * p + 4 * n)),
                         20 * p * T, d[<<"speed", 0>>])
        direction == ChoiceDir(d[<<"dir", 0>>])
        log(i) ==
            LET x0 == Uniform(W * (10 * i - 2), W * (10 * i + 2), 10 * num_logs,
                              d[<<"x", i>>])
                x == IF direction < 0 THEN W - x0 ELSE x0
            IN  Obstacle("Log", x, row_y, speed,
                         IF i % 2 = 0 THEN direction ELSE -direction, LOG_WIDTH)
    IN  [i \in 1 .. num_logs |-> log(i - 1)]

RiverLogs(row_y, d) ==
    LET n == GameProgNum(row_y)
        p == GamePlayable
        min_logs == Max(2, 3 - n \div p)
        max_logs == Max(3, 4 - n \div p)
        num_logs == RandInt(min_logs, max_logs, d[<<"count", 0>>])
        speed == Uniform(LOG_SPEED_MIN_X2 * Q * (8 * p + 4 * n),
                         Q * (LOG_SPEED_MIN_X2 * 10 * p
                              + (2 * LOG_SPEED_MAX - LOG_SPEED_MIN_X2) * (6 * p + 4 * n)),
                         20 * p * T, d[<<"speed", 0>>])
        direction == ChoiceDir(d[<<"dir", 0>>])
        log(i) ==
            LET x0 == Uniform(W * (10 * i - 2), W * (10 * i + 2), 10 * num_logs,
                              d[<<"x", i>>])
                x == IF direction < 0 THEN W - x0 ELSE x0
            IN  Obstacle("Log", x, row_y, speed, direction, LOG_WIDTH)
    IN  [i \in 1 .. num_logs |-> log(i - 1)]

\* random.sample(range(GRID_WIDTH), num): draw k takes one of the columns left
RemoveAt(s, i) == SubSeq(s, 1, i - 1) \o SubSeq(s, i + 1, Len(s))

RECURSIVE Sample(_, _, _, _)
Sample(pool, k, num, d) ==
    IF k >= num THEN <<>>
    ELSE LET idx == 1 + (d[<<"x", k>>] % Len(pool)) IN
         <<pool[idx]>> \o Sample(RemoveAt(pool, idx), k + 1, num, d)

\* generate_for_row, TERRAIN_GRASS branch (lines 349-361): the trees in list order
GrassTrees(row_y, d) ==
    LET n == GameProgNum(row_y)
        p == GamePlayable
        max_trees == 2 + (2 * n) \div p
        num_trees == RandInt(0, max_trees, d[<<"count", 0>>])
        positions == Sample([c \in 1 .. GRID_WIDTH |-> c - 1], 0, num_trees, d)
    IN  [i \in 1 .. num_trees |-> [x |-> positions[i], y |-> row_y]]

\* TrainTrack.__init__ (lines 166-210).  `train` is 0 (None) or the index in the
\* obstacle list of the Train object the track shares with it; the constructor's
\* train, when it makes one, is returned beside the track.
NewTrainTrack(row_y, d) ==
    LET n == GameProgNum(row_y)
        p == GamePlayable
        direction == ChoiceDir(d[<<"dir", 0>>])
        \* interval_scale = 1 - 0.3 * progress; bounds in time units over 10 * p
        lo == T * (TRAIN_SPAWN_INTERVAL_MIN * (10 * p - 3 * n) + 10 * p)
        hi == T * (TRAIN_SPAWN_INTERVAL_MAX * (10 * p - 3 * n) + 20 * p)
        roll == d[<<"roll", 0>>]
        base == [row_y |-> row_y, direction |-> direction, train |-> 0,
                 interval_lo |-> lo, interval_hi |-> hi, interval_den |-> 10 * p,
                 time_until_next_train |-> 0, warning |-> FALSE]
    IN  IF RandomLess(roll, p + 2 * n, 10 * p)
        THEN [track |-> [base EXCEPT
                  !.time_until_next_train = Uniform(lo, hi, 10 * p, d[<<"timer", 0>>])],
              train |-> <<Train(IF direction > 0
                                THEN Uniform(-10 * TRAIN_WIDTH_U, 3 * W, 10, d[<<"x", 0>>])
                                ELSE Uniform(7 * W, 10 * (W + TRAIN_WIDTH_U), 10,
                                             d[<<"x", 0>>]),
                                row_y, direction)>>]
        ELSE IF RandomLess(roll, 2 * (p + 2 * n), 10 * p)
        THEN [track |-> [base EXCEPT
                  !.time_until_next_train =
                      Uniform(T, 2 * TRAIN_WARNING_TIME * T, 2, d[<<"timer", 0>>]),
                  !.warning = TRUE],
              train |-> <<>>]
        ELSE [track |-> [base EXCEPT
                  !.time_until_next_train = Uniform(lo, hi, 10 * p, d[<<"timer", 0>>])],
              train |-> <<>>]

-----------------------------------------------------------------------------
(* obstacles.py: ObstacleManager, as the record [obstacles, trees, train_tracks] *)

EmptyManager == [obstacles |-> <<>>, trees |-> <<>>, train_tracks |-> <<>>]

\* The index, in the list without row_y's obstacles, of the obstacle at index k
IndexAfterRemoval(obs, row_y, k) ==
    IF k = 0 THEN 0 ELSE Cardinality({j \in 1 .. k : obs[j].y # row_y})

\* A faulty generate_for_row that leaves a row's old trees under its new cars
\* or logs
GenerateForRowKeepsTrees(om, row_y, terrain_type, d) ==
    LET kept == SelectSeq(om.obstacles, LAMBDA o : o.y # row_y)
        keptTrees == SelectSeq(om.trees, LAMBDA t : t.y # row_y)
        others == SelectSeq(om.train_tracks, LAMBDA t : t.row_y # row_y)
        keptTracks == [i \in 1 .. Len(others) |->
                          [others[i] EXCEPT
                              !.train = IndexAfterRemoval(om.obstacles, row_y, @)]]
        made == NewTrainTrack(row_y, d)
    IN  IF terrain_type = TERRAIN_ROAD
        THEN [obstacles |-> kept \o RoadCars(row_y, d), trees |-> om.trees,
              train_tracks |-> keptTracks]
        ELSE IF terrain_type = TERRAIN_RIVER
        THEN [obstacles |-> kept \o RiverLogs(row_y, d), trees |-> om.trees,
              train_tracks |-> keptTracks]
        ELSE IF terrain_type = TERRAIN_GRASS
        THEN [obstacles |-> kept, trees |-> keptTrees \o GrassTrees(row_y, d),
              train_tracks |-> keptTracks]
        ELSE IF terrain_type = TERRAIN_TRAIN
        THEN [obstacles |-> kept \o made.train, trees |-> keptTrees,
              train_tracks |-> Append(keptTracks,
                  [made.track EXCEPT
                      !.train = IF made.train = <<>> THEN 0 ELSE Len(kept) + 1])]
        ELSE [obstacles |-> kept, trees |-> keptTrees, train_tracks |-> keptTracks]

\* generate_for_row (lines 267-370)
GenerateForRow(om, row_y, terrain_type, d) ==
    LET kept == SelectSeq(om.obstacles, LAMBDA o : o.y # row_y)
        keptTrees == SelectSeq(om.trees, LAMBDA t : t.y # row_y)
        others == SelectSeq(om.train_tracks, LAMBDA t : t.row_y # row_y)
        keptTracks == [i \in 1 .. Len(others) |->
                          [others[i] EXCEPT
                              !.train = IndexAfterRemoval(om.obstacles, row_y, @)]]
        made == NewTrainTrack(row_y, d)
    IN  IF terrain_type = TERRAIN_ROAD
        THEN [obstacles |-> kept \o RoadCars(row_y, d), trees |-> keptTrees,
              train_tracks |-> keptTracks]
        ELSE IF terrain_type = TERRAIN_RIVER
        THEN [obstacles |-> kept \o RiverLogs(row_y, d), trees |-> keptTrees,
              train_tracks |-> keptTracks]
        ELSE IF terrain_type = TERRAIN_GRASS
        THEN [obstacles |-> kept, trees |-> keptTrees \o GrassTrees(row_y, d),
              train_tracks |-> keptTracks]
        ELSE IF terrain_type = TERRAIN_TRAIN
        THEN [obstacles |-> kept \o made.train, trees |-> keptTrees,
              train_tracks |-> Append(keptTracks,
                  [made.track EXCEPT
                      !.train = IF made.train = <<>> THEN 0 ELSE Len(kept) + 1])]
        ELSE [obstacles |-> kept, trees |-> keptTrees, train_tracks |-> keptTracks]

\* A faulty spawn position that leaves the train's head inside the world
SpawnXHeadInside(direction) ==
    IF direction > 0 THEN Q - TRAIN_WIDTH_U ELSE W - Q

\* TrainTrack.update, lines 239-242: where a train is spawned
SpawnX(direction) == IF direction > 0 THEN -TRAIN_WIDTH_U ELSE W + TRAIN_WIDTH_U

\* TrainTrack.update (lines 212-251) for the track at index i of the manager whose
\* obstacles have already moved; v is the variate of the interval redrawn at line
\* 228.  A spawned train is appended to the obstacle list (line 386).
TrackUpdate(om, i, dt, v) ==
    LET t0 == om.train_tracks[i]
        gone == /\ t0.train # 0
                /\ \/ t0.direction > 0 /\ om.obstacles[t0.train].x > W + TRAIN_WIDTH_U
                   \/ t0.direction < 0 /\ om.obstacles[t0.train].x < -TRAIN_WIDTH_U
        t1 == IF gone
              THEN [t0 EXCEPT !.train = 0,
                              !.time_until_next_train =
                                  Uniform(t0.interval_lo, t0.interval_hi, t0.interval_den, v),
                              !.warning = FALSE]
              ELSE t0
        t2 == [t1 EXCEPT !.time_until_next_train = @ - dt]
        t3 == IF t2.time_until_next_train <= TRAIN_WARNING_TIME * T /\ ~t2.warning
              THEN [t2 EXCEPT !.warning = TRUE]
              ELSE t2
    IN  IF t1.train # 0 THEN [om EXCEPT !.train_tracks[i] = t1]
        ELSE IF t3.time_until_next_train <= 0
        THEN [om EXCEPT
                !.obstacles = Append(@, Train(SpawnX(t3.direction), t3.row_y,
                                              t3.direction)),
                !.train_tracks[i] = [t3 EXCEPT !.train = Len(om.obstacles) + 1,
                                               !.warning = FALSE]]
        ELSE [om EXCEPT !.train_tracks[i] = t3]

RECURSIVE UpdateTracks(_, _, _, _)
UpdateTracks(om, i, dt, v) ==
    IF i > Len(om.train_tracks) THEN om
    ELSE UpdateTracks(TrackUpdate(om, i, dt, v), i + 1, dt, v)

\* ObstacleManager.update (lines 372-386)
ManagerUpdate(om, dt, v) ==
    UpdateTracks(
        [om EXCEPT !.obstacles =
            [i \in 1 .. Len(om.obstacles) |-> ObstacleUpdate(om.obstacles[i], dt)]],
        1, dt, v)

\* A faulty collision test for which touching edges collide
CheckCollisionTouching(obs, player_x, player_y) ==
    \E i \in 1 .. Len(obs) :
        /\ obs[i].kind \in CarKinds
        /\ obs[i].y = player_y
        /\ player_x <= obs[i].x + obs[i].width
        /\ player_x + Q >= obs[i].x

\* check_collision_with_car (lines 400-423)
CheckCollisionWithCar(obs, player_x, player_y) ==
    \E i \in 1 .. Len(obs) :
        /\ obs[i].kind \in CarKinds
        /\ obs[i].y = player_y
        /\ player_x < obs[i].x + obs[i].width
        /\ player_x + Q > obs[i].x

\* check_collision_with_train (lines 425-448)
CheckCollisionWithTrain(obs, player_x, player_y) ==
    \E i \in 1 .. Len(obs) :
        /\ obs[i].kind = "Train"
        /\ obs[i].y = player_y
        /\ player_x < obs[i].x + obs[i].width
        /\ player_x + Q > obs[i].x

\* The overlap of lines 487-489 between the player's box and obstacle o
Overlap(o, player_x) ==
    Max(0, Min(player_x + Q, o.x + o.width) - Max(player_x, o.x))

\* A faulty ride test that is content with half the overlap
GetLogAtHalfOverlap(obs, player_x, player_y) ==
    LET riding == {i \in 1 .. Len(obs) :
                      /\ obs[i].kind = "Log"
                      /\ obs[i].y = player_y
                      /\ Overlap(obs[i], player_x) >= Q \div 8}
    IN  IF riding = {} THEN 0
        ELSE CHOOSE i \in riding : \A j \in riding : i <= j

\* get_log_at_position (lines 464-495): the index of the log returned, 0 for None.
\* The threshold player_width * 0.25 is Q \div 4 position units.
GetLogAtPosition(obs, player_x, player_y) ==
    LET riding == {i \in 1 .. Len(obs) :
                      /\ obs[i].kind = "Log"
                      /\ obs[i].y = player_y
                      /\ Overlap(obs[i], player_x) >= Q \div 4}
    IN  IF riding = {} THEN 0
        ELSE CHOOSE i \in riding : \A j \in riding : i <= j

\* has_tree_at (lines 497-511)
HasTreeAt(ts, grid_x, grid_y) ==
    \E i \in 1 .. Len(ts) : ts[i].x = grid_x /\ ts[i].y = grid_y

\* is_train_warning (lines 450-462)
IsTrainWarning(tracks, grid_y) ==
    \E i \in 1 .. Len(tracks) : tracks[i].row_y = grid_y /\ tracks[i].warning

-----------------------------------------------------------------------------
(* player.py: Player *)

\* int(x) of a float x given in position units: truncation toward zero, in cells
IntOf(xu) == IF xu >= 0 THEN xu \div Q ELSE -((-xu) \div Q)

\* Player.__init__ / Player.reset
PlayerReset == [x |-> PLAYER_START_X * Q, y |-> PLAYER_START_Y, max_row |-> PLAYER_START_Y]

\* A faulty move whose max_row follows the player's row, back down as well
PlayerMoveTracksRow(pl, dx, dy, grid_width, grid_height) ==
    LET new_x == IntOf(pl.x) + dx
        new_y == pl.y + dy
    IN  IF 0 <= new_x /\ new_x < grid_width /\ 0 <= new_y /\ new_y < grid_height
        THEN [x |-> new_x * Q, y |-> new_y, max_row |-> new_y]
        ELSE pl

\* A faulty move that jumps from the player's continuous x, without int()
PlayerMoveNoSnap(pl, dx, dy, grid_width, grid_height) ==
    LET new_x == IntOf(pl.x) + dx
        new_y == pl.y + dy
    IN  IF 0 <= new_x /\ new_x < grid_width /\ 0 <= new_y /\ new_y < grid_height
        THEN [x |-> pl.x + dx * Q, y |-> new_y,
              max_row |-> IF new_y < pl.max_row THEN new_y ELSE pl.max_row]
        ELSE pl

\* Player.move (lines 15-43)
PlayerMove(pl, dx, dy, grid_width, grid_height) ==
    LET new_x == IntOf(pl.x) + dx
        new_y == pl.y + dy
    IN  IF 0 <= new_x /\ new_x < grid_width /\ 0 <= new_y /\ new_y < grid_height
        THEN [x |-> new_x * Q, y |-> new_y,
              max_row |-> IF new_y < pl.max_row THEN new_y ELSE pl.max_row]
        ELSE pl

\* Player.get_score
GetScore(pl) == PLAYER_START_Y - pl.max_row

-----------------------------------------------------------------------------
(* game.py: GameState *)

SCROLL_SPEED_X2 == 1    \* SCROLL_SPEED = 0.5 rows per second, doubled
MaxLoadedHighScore == 0 \* _load_high_score returns a value in 0..MaxLoadedHighScore

\* A faulty scroll that never moves
ScrollStepStalled(dt) == 0

\* A faulty scroll step of the opposite sign
ScrollStepBack(dt) == 0 - (SCROLL_SPEED_X2 * Q * dt) \div (2 * T)

\* SCROLL_SPEED * dt in position units
ScrollStep(dt) == (SCROLL_SPEED_X2 * Q * dt) \div (2 * T)

Manager == [obstacles |-> obstacles, trees |-> trees, train_tracks |-> train_tracks]

\* _generate_initial_obstacles (lines 50-54), from index i of the enumerate
RECURSIVE GenerateInitialObstacles(_, _, _, _)
GenerateInitialObstacles(rs, om, i, seed) ==
    IF i >= Len(rs) THEN om
    ELSE GenerateInitialObstacles(rs,
            IF rs[i + 1].terrain_type \in {TERRAIN_ROAD, TERRAIN_RIVER, TERRAIN_GRASS}
            THEN GenerateForRow(om, i, rs[i + 1].terrain_type, SeedDraws(seed, i))
            ELSE om,
            i + 1, seed)

\* The moves of the command surface (main.py lines 45-52)
Moves == {<<0, -1>>, <<0, 1>>, <<-1, 0>>, <<1, 0>>}

\* What terrain_manager.reset(), obstacle_manager.reset() and
\* _generate_initial_obstacles() leave, for each scripted source
NewSession(seed) ==
    LET rs == GenerateTerrain(TOTAL_ROWS, seed)
        om == GenerateInitialObstacles(rs, EmptyManager, 0, seed)
    IN  [rows |-> rs, obstacles |-> om.obstacles, trees |-> om.trees,
         train_tracks |-> om.train_tracks]

Sessions == {NewSession(seed) : seed \in Seeds}

\* __init__ (lines 20-30)
Init ==
    /\ state = STATE_START
    /\ player = PlayerReset
    /\ high_score \in 0 .. MaxLoadedHighScore
    /\ scroll_y = 0
    /\ \E s \in Sessions :
          /\ rows = s.rows
          /\ obstacles = s.obstacles
          /\ trees = s.trees
          /\ train_tracks = s.train_tracks
    /\ gen = GenIdle

\* A faulty start_game that does not reset the obstacle manager: the new world's
\* hazards are added to the ones the last session left
StartGameNoClear(s) ==
    /\ state' = STATE_PLAYING
    /\ player' = PlayerReset
    /\ rows' = s.rows
    /\ scroll_y' = (PlayerReset.y - GRID_HEIGHT + 3) * Q
    /\ obstacles' = obstacles \o s.obstacles
    /\ trees' = trees \o s.trees
    /\ train_tracks' = s.train_tracks
    /\ UNCHANGED <<high_score, gen>>

\* start_game (lines 56-63), s the freshly generated world
StartGame(s) ==
    /\ state' = STATE_PLAYING
    /\ player' = PlayerReset
    /\ rows' = s.rows
    /\ scroll_y' = (PlayerReset.y - GRID_HEIGHT + 3) * Q
    /\ obstacles' = s.obstacles
    /\ trees' = s.trees
    /\ train_tracks' = s.train_tracks
    /\ UNCHANGED <<high_score, gen>>

\* restart (lines 140-142)
Restart(s) == StartGame(s)

\* A faulty _game_over that stores the session's score whatever the old record
HighScoreLastSession(pl, hs) == GetScore(pl)

\* _game_over (lines 130-138): the new high score
HighScoreAfter(pl, hs) == IF GetScore(pl) > hs THEN GetScore(pl) ELSE hs

\* A faulty scroll death that spares the player standing on the bottom line
ScrollDeathStrict(pl, scroll1) == pl.y * Q > scroll1 + GRID_HEIGHT * Q

\* update, line 80: the player has fallen behind the scroll bottom
ScrollDeath(pl, scroll1) == pl.y * Q >= scroll1 + GRID_HEIGHT * Q

\* A faulty carry that ignores the log's direction
CarriedRightward(pl, obs, dt) ==
    LET log == GetLogAtPosition(obs, pl.x, pl.y) IN
    IF log # 0
    THEN [pl EXCEPT !.x = @ + obs[log].speed * dt]
    ELSE pl

\* update, lines 90-94: the player after the log carry on a River row
Carried(pl, obs, dt) ==
    LET log == GetLogAtPosition(obs, pl.x, pl.y) IN
    IF log # 0
    THEN [pl EXCEPT !.x = @ + obs[log].speed * obs[log].direction * dt]
    ELSE pl

\* A faulty death rule in which a player in the water does not drown
TickDeadNoDrowning(current_terrain, pl, moved, obs) ==
    \/ /\ current_terrain = TERRAIN_RIVER
       /\ \/ moved.x < 0
          \/ moved.x >= W
    \/ /\ current_terrain = TERRAIN_ROAD
       /\ CheckCollisionWithCar(obs, moved.x, moved.y)

\* A faulty death rule that lets a log carry the player out of the world
TickDeadNoEdge(current_terrain, pl, moved, obs) ==
    \/ /\ current_terrain = TERRAIN_RIVER
       /\ GetLogAtPosition(obs, pl.x, pl.y) = 0
    \/ /\ current_terrain = TERRAIN_ROAD
       /\ CheckCollisionWithCar(obs, moved.x, moved.y)

\* A faulty death rule that looks at the hazards where the tick found them,
\* before obstacle_manager.update(dt) moved them
TickDeadBeforeMotion(current_terrain, pl, moved, obs) ==
    \/ /\ current_terrain = TERRAIN_RIVER
       /\ \/ GetLogAtPosition(obstacles, pl.x, pl.y) = 0
          \/ moved.x < 0
          \/ moved.x >= W
    \/ /\ current_terrain = TERRAIN_ROAD
       /\ CheckCollisionWithCar(obstacles, moved.x, moved.y)

\* update, lines 89-106: whether the tick calls _game_over after the hazards moved;
\* pl is the player before the carry, moved the player after it
TickDead(current_terrain, pl, moved, obs) ==
    \/ /\ current_terrain = TERRAIN_RIVER
       /\ \/ GetLogAtPosition(obs, pl.x, pl.y) = 0
          \/ moved.x < 0
          \/ moved.x >= W
    \/ /\ current_terrain = TERRAIN_ROAD
       /\ CheckCollisionWithCar(obs, moved.x, moved.y)

\* update (lines 75-106) while Playing
Tick(dt, v) ==
    LET scroll1 == scroll_y - ScrollStep(dt)
        om == ManagerUpdate(Manager, dt, v)
        current_terrain == GetTerrainAt(rows, player.y)
        moved == IF current_terrain = TERRAIN_RIVER
                 THEN Carried(player, om.obstacles, dt)
                 ELSE player
        dead == TickDead(current_terrain, player, moved, om.obstacles)
    IN  /\ scroll_y' = scroll1
        /\ IF ScrollDeath(player, scroll1)
           THEN /\ state' = STATE_GAME_OVER
                /\ high_score' = HighScoreAfter(player, high_score)
                /\ UNCHANGED <<player, obstacles, train_tracks>>
           ELSE /\ obstacles' = om.obstacles
                /\ train_tracks' = om.train_tracks
                /\ player' = moved
                /\ state' = IF dead THEN STATE_GAME_OVER ELSE STATE_PLAYING
                /\ high_score' = IF dead THEN HighScoreAfter(moved, high_score)
                                 ELSE high_score
        /\ UNCHANGED <<rows, trees, gen>>

\* A faulty update that keeps ticking on the game-over screen
UpdateAfterGameOver(dt, v) ==
    IF state = STATE_START THEN UNCHANGED vars ELSE Tick(dt, v)

\* update (lines 65-106); v is the variate of the tracks' redrawn interval
Update(dt, v) ==
    IF state # STATE_PLAYING THEN UNCHANGED vars ELSE Tick(dt, v)

\* A faulty move_player that does not look at the game state
MovePlayerAnyState(dx, dy) ==
    LET target_x == IntOf(player.x) + dx
        target_y == player.y + dy
    IN  /\ player' =
              IF /\ 0 <= target_x /\ target_x < GRID_WIDTH
                 /\ 0 <= target_y /\ target_y < TOTAL_ROWS
                 /\ ~HasTreeAt(trees, target_x, target_y)
              THEN PlayerMove(player, dx, dy, GRID_WIDTH, TOTAL_ROWS)
              ELSE player
        /\ UNCHANGED <<state, rows, obstacles, trees, train_tracks, high_score,
                       scroll_y, gen>>

\* A faulty move_player that does not ask has_tree_at
MovePlayerThroughTrees(dx, dy) ==
    /\ player' = IF state = STATE_PLAYING
                 THEN PlayerMove(player, dx, dy, GRID_WIDTH, TOTAL_ROWS)
                 ELSE player
    /\ UNCHANGED <<state, rows, obstacles, trees, train_tracks, high_score,
                   scroll_y, gen>>

\* move_player (lines 108-128)
MovePlayer(dx, dy) ==
    LET target_x == IntOf(player.x) + dx
        target_y == player.y + dy
    IN  /\ player' =
              IF /\ state = STATE_PLAYING
                 /\ 0 <= target_x /\ target_x < GRID_WIDTH
                 /\ 0 <= target_y /\ target_y < TOTAL_ROWS
                 /\ ~HasTreeAt(trees, target_x, target_y)
              THEN PlayerMove(player, dx, dy, GRID_WIDTH, TOTAL_ROWS)
              ELSE player
        /\ UNCHANGED <<state, rows, obstacles, trees, train_tracks, high_score,
                       scroll_y, gen>>

\* The variates line 228 may draw in this tick: none is drawn without a live train
TimerRolls ==
    IF \E i \in 1 .. Len(train_tracks) : train_tracks[i].train # 0
    THEN {0, M - 1} ELSE {0}

\* main.py handle_events: start on the start screen, restart on the game-over screen
DoStartGame == state = STATE_START /\ \E s \in Sessions : StartGame(s)
DoRestart == state = STATE_GAME_OVER /\ \E s \in Sessions : Restart(s)
DoUpdate == \E dt \in 1 .. MaxDt, v \in TimerRolls : Update(dt, v)
DoMovePlayer == \E m \in Moves : MovePlayer(m[1], m[2])

Next == DoStartGame \/ DoRestart \/ DoUpdate \/ DoMovePlayer

Spec == Init /\ [][Next]_vars

-----------------------------------------------------------------------------
(* The game with the Rail rows' tracks registered by a caller of the           *)
(* ObstacleManager: generate_for_row(row, TERRAIN_TRAIN), the call              *)
(* _generate_initial_obstacles leaves out, made once per Rail row.             *)

GenerateRailRow(row, seed) ==
    LET om == GenerateForRow(Manager, row, TERRAIN_TRAIN, SeedDraws(seed, row)) IN
    /\ state = STATE_PLAYING
    /\ GetTerrainAt(rows, row) = TERRAIN_TRAIN
    /\ \A i \in 1 .. Len(train_tracks) : train_tracks[i].row_y # row
    /\ obstacles' = om.obstacles
    /\ trees' = om.trees
    /\ train_tracks' = om.train_tracks
    /\ UNCHANGED <<state, player, rows, high_score, scroll_y, gen>>

DoGenerateRailRow ==
    \E row \in 0 .. (TOTAL_ROWS - 1), seed \in Seeds : GenerateRailRow(row, seed)

NextRail == Next \/ DoGenerateRailRow

SpecRail == Init /\ [][NextRail]_vars

-----------------------------------------------------------------------------
(* The ObstacleManager on its own: one row is generated into an empty manager  *)
(* by generate_for_row, for any row, terrain type and scripted source, and     *)
(* update(dt) is then called again and again.                                  *)

HazMaxDt == 3   \* update(dt) is called with dt in 1 .. HazMaxDt

\* The rows generated: the playable rows and the first safe row, which between
\* them have every value get_progress takes
HazRows == 0 .. (TOTAL_ROWS - SAFE_ROWS)

HazInit ==
    /\ state = STATE_START
    /\ player = PlayerReset
    /\ rows = <<>>
    /\ obstacles = <<>>
    /\ trees = <<>>
    /\ train_tracks = <<>>
    /\ high_score = 0
    /\ scroll_y = 0
    /\ gen = GenIdle

HazGenerate ==
    /\ Manager = EmptyManager
    /\ \E row_y \in HazRows, terrain_type \in TerrainTypes, seed \in Seeds :
          LET om == GenerateForRow(Manager, row_y, terrain_type, SeedDraws(seed, row_y)) IN
          /\ obstacles' = om.obstacles
          /\ trees' = om.trees
          /\ train_tracks' = om.train_tracks
    /\ UNCHANGED <<state, player, rows, high_score, scroll_y, gen>>

HazUpdate ==
    /\ \E dt \in 1 .. HazMaxDt, v \in TimerRolls :
          LET om == ManagerUpdate(Manager, dt, v) IN
          /\ obstacles' = om.obstacles
          /\ trees' = om.trees
          /\ train_tracks' = om.train_tracks
    /\ UNCHANGED <<state, player, rows, high_score, scroll_y, gen>>

HazNext == HazGenerate \/ HazUpdate

SpecHazards == HazInit /\ [][HazNext]_vars

\* update(dt) is called on every frame
SpecHazardsFair == SpecHazards /\ WF_vars(HazUpdate)

-----------------------------------------------------------------------------
(* Claims *)

InitialScroll == (PLAYER_START_Y - GRID_HEIGHT + 3) * Q
RowIndices == 0 .. (TOTAL_ROWS - 1)
SafeRowIndices == (TOTAL_ROWS - SAFE_ROWS) .. (TOTAL_ROWS - 1)

\* C1: the state changes only along Start -> Playing (start_game), Playing ->
\* GameOver (update) and GameOver -> Playing (restart); update and move_player
\* leave GameOver as it is.
C1_StateTransitions ==
    [][/\ state' # state =>
            \/ state = STATE_START /\ state' = STATE_PLAYING /\ DoStartGame
            \/ state = STATE_PLAYING /\ state' = STATE_GAME_OVER /\ DoUpdate
            \/ state = STATE_GAME_OVER /\ state' = STATE_PLAYING /\ DoRestart
       /\ (state = STATE_GAME_OVER /\ (DoUpdate \/ DoMovePlayer))
            => state' = STATE_GAME_OVER]_vars

\* C1 witness: a second session is being played, so a game over was entered and left
C1_Witness == state = STATE_PLAYING /\ high_score > 0 /\ scroll_y < InitialScroll

\* C2: a Playing tick whose advanced scroll bottom has reached the player's row
\* ends in GameOver and moves no hazard, no track timer and no player coordinate.
C2_ScrollDeathStopsTick ==
    [][(state = STATE_PLAYING /\ DoUpdate
            /\ player.y * Q >= scroll_y' + GRID_HEIGHT * Q)
        => /\ state' = STATE_GAME_OVER
           /\ obstacles' = obstacles
           /\ train_tracks' = train_tracks
           /\ player' = player]_vars

\* C2 witness: a game over by the scroll, in a world with moving hazards
C2_Witness ==
    /\ state = STATE_GAME_OVER
    /\ player.y * Q >= scroll_y + GRID_HEIGHT * Q
    /\ Len(obstacles) > 0

\* C3 as stated: an update never lowers scroll_y.
C3_ScrollOnlyIncreases == [][DoUpdate => scroll_y' >= scroll_y]_vars

\* C3 amended: within a session scroll_y only decreases: no update and no move
\* raises it, and an update while Playing lowers it.
C3_ScrollOnlyDecreases ==
    [][(DoUpdate \/ DoMovePlayer)
        => /\ scroll_y' <= scroll_y
           /\ (state = STATE_PLAYING /\ DoUpdate) => scroll_y' < scroll_y]_vars

\* C3 witness: a Playing state whose scroll has moved since start_game
C3_Witness == state = STATE_PLAYING /\ scroll_y < InitialScroll

\* C4: a Playing tick that finds the player on a River row with no log under it
\* (no overlap of at least 0.25 with the hazards as this tick leaves them) ends
\* in GameOver.
C4_Drowning ==
    [][(state = STATE_PLAYING /\ DoUpdate
            /\ GetTerrainAt(rows, player.y) = TERRAIN_RIVER
            /\ GetLogAtPosition(obstacles', player.x, player.y) = 0)
        => state' = STATE_GAME_OVER]_vars

\* C4 witness: drowned: game over on a River row, inside the world, above the
\* scroll bottom, with no log under the player
C4_Witness ==
    /\ state = STATE_GAME_OVER
    /\ GetTerrainAt(rows, player.y) = TERRAIN_RIVER
    /\ GetLogAtPosition(obstacles, player.x, player.y) = 0
    /\ player.y * Q < scroll_y + GRID_HEIGHT * Q

\* C5 as stated: a player riding a log at the start of a Playing tick that the
\* scroll does not end is carried by log.speed * log.direction * dt, and the state
\* stays Playing when the new x is in [0, GRID_WIDTH).
C5_CarryFromStartOfTick ==
    [][\A dt \in 1 .. MaxDt, v \in TimerRolls :
        LET log == GetLogAtPosition(obstacles, player.x, player.y) IN
        (state = STATE_PLAYING /\ Update(dt, v)
            /\ GetTerrainAt(rows, player.y) = TERRAIN_RIVER
            /\ log # 0
            /\ player.y * Q < scroll_y' + GRID_HEIGHT * Q)
        => /\ player'.x = player.x + obstacles[log].speed * obstacles[log].direction * dt
           /\ (0 <= player'.x /\ player'.x < W) => state' = STATE_PLAYING]_vars

\* C5 amended: the same with the ride decided after this tick's hazard motion:
\* get_log_at_position(player.x, player.y), for the x the player had before the
\* tick, returns a log among the moved hazards.
C5_CarryAfterMotion ==
    [][\A dt \in 1 .. MaxDt, v \in TimerRolls :
        LET log == GetLogAtPosition(obstacles', player.x, player.y) IN
        (state = STATE_PLAYING /\ Update(dt, v)
            /\ GetTerrainAt(rows, player.y) = TERRAIN_RIVER
            /\ log # 0
            /\ player.y * Q < scroll_y' + GRID_HEIGHT * Q)
        => /\ player'.x = player.x + obstacles'[log].speed * obstacles'[log].direction * dt
           /\ player'.y = player.y
           /\ (0 <= player'.x /\ player'.x < W) => state' = STATE_PLAYING]_vars

\* C5 witness: a Playing player on a River row at a non-integral x, where only a
\* log carry can have put it
C5_Witness ==
    /\ state = STATE_PLAYING
    /\ GetTerrainAt(rows, player.y) = TERRAIN_RIVER
    /\ player.x % Q # 0

\* C6: a Playing tick with the player on a Rail row under a Train's footprint,
\* before and after the tick's hazard motion, ends in GameOver.
C6_RailCollision ==
    [][(state = STATE_PLAYING /\ DoUpdate
            /\ GetTerrainAt(rows, player.y) = TERRAIN_TRAIN
            /\ CheckCollisionWithTrain(obstacles, player.x, player.y)
            /\ CheckCollisionWithTrain(obstacles', player.x, player.y))
        => state' = STATE_GAME_OVER]_vars

\* C7: once a session has started, every Rail row has exactly one TrainTrack and
\* no other row has one.
C7_OneTrackPerRailRow ==
    state # STATE_START =>
        \A row \in RowIndices :
            Cardinality({i \in 1 .. Len(train_tracks) : train_tracks[i].row_y = row})
                = IF GetTerrainAt(rows, row) = TERRAIN_TRAIN THEN 1 ELSE 0

\* C8: in every session the last 5 rows are Grass and hold no car, log, train,
\* train track or tree.
C8_SafeZone ==
    state # STATE_START =>
        \A row \in SafeRowIndices :
            /\ GetTerrainAt(rows, row) = TERRAIN_GRASS
            /\ \A i \in 1 .. Len(obstacles) : obstacles[i].y # row
            /\ \A i \in 1 .. Len(train_tracks) : train_tracks[i].row_y # row
            /\ \A i \in 1 .. Len(trees) : trees[i].y # row

\* C9: _generate_terrain terminates, and leaves exactly total rows with
\* rows[i].row_num = i for every i, whatever the draws.
C9_TerrainCoverage ==
    /\ <>(gen.pc = "done")
    /\ [](gen.pc = "done" =>
            /\ Len(gen.rows) = gen.total
            /\ \A i \in 1 .. Len(gen.rows) : gen.rows[i].row_num = i - 1)

\* C9 witness: a finished run in which a cluster was clipped at row 0 and a grass
\* break was inserted
C9_Witness == gen.pc = "done" /\ gen.clipped /\ gen.broke

\* The target cell of move_player(dx, dy) lies outside the world or holds a tree
Rejected(dx, dy) ==
    LET target_x == IntOf(player.x) + dx
        target_y == player.y + dy
    IN  \/ target_x < 0 \/ target_x >= GRID_WIDTH
        \/ target_y < 0 \/ target_y >= TOTAL_ROWS
        \/ \E i \in 1 .. Len(trees) : trees[i].x = target_x /\ trees[i].y = target_y

\* C10: a move_player whose target cell is outside the world or holds a tree
\* changes neither player.x (a non-integral x is not snapped), player.y, max_row,
\* the score nor the game state.
C10_RejectedMoveIsNoOp ==
    [][\A m \in Moves :
        (state = STATE_PLAYING /\ MovePlayer(m[1], m[2]) /\ Rejected(m[1], m[2]))
        => /\ player' = player
           /\ GetScore(player') = GetScore(player)
           /\ state' = state]_vars

\* C10 witness: a Playing player at a non-integral x next to a tree or a world
\* edge, where a move is rejected
C10_Witness ==
    /\ state = STATE_PLAYING
    /\ player.x % Q # 0
    /\ \E m \in Moves : Rejected(m[1], m[2])

\* C11: get_score() is PLAYER_START_Y - max_row and is 0 right after start_game
\* and restart; within a session no move and no tick lowers it, and max_row is the
\* least row the player has occupied: the start row at first, then the smaller of
\* its old value and the row just reached.
C11_ScoreLaw ==
    [][/\ (DoStartGame \/ DoRestart)
            => /\ GetScore(player') = 0
               /\ player'.max_row = player'.y
       /\ (DoUpdate \/ DoMovePlayer)
            => /\ GetScore(player') >= GetScore(player)
               /\ player'.max_row = Min(player.max_row, player'.y)
               /\ GetScore(player') + player'.max_row = PLAYER_START_Y]_vars

\* C11 witness: a player who scored and then stepped back down
C11_Witness ==
    /\ state = STATE_PLAYING
    /\ GetScore(player) > 0
    /\ player.y > player.max_row

\* The terrain a hazard of each kind is generated on
HomeTerrain(kind) ==
    IF kind \in CarKinds THEN TERRAIN_ROAD
    ELSE IF kind = "Log" THEN TERRAIN_RIVER
    ELSE TERRAIN_TRAIN

\* C12: restart from GameOver yields Playing, the player at its start cell with
\* max_row = PLAYER_START_Y, scroll_y at its session-start value, and hazard
\* collections that are exactly what generation from an empty manager gives for
\* the new terrain: every car on a Road row, every log on a River row, every tree
\* on a Grass row of the new world, and nothing carried over.
C12_RestartResets ==
    [][DoRestart
        => /\ state = STATE_GAME_OVER
           /\ state' = STATE_PLAYING
           /\ player' = [x |-> PLAYER_START_X * Q, y |-> PLAYER_START_Y,
                         max_row |-> PLAYER_START_Y]
           /\ scroll_y' = InitialScroll
           /\ [rows |-> rows', obstacles |-> obstacles', trees |-> trees',
               train_tracks |-> train_tracks'] \in Sessions
           /\ \A i \in 1 .. Len(obstacles') :
                 GetTerrainAt(rows', obstacles'[i].y) = HomeTerrain(obstacles'[i].kind)
           /\ \A i \in 1 .. Len(trees') :
                 GetTerrainAt(rows', trees'[i].y) = TERRAIN_GRASS]_vars

\* C12 witness: the first state of a later session: a game over with a score has
\* happened, no tick has run since the restart, and the world has moving hazards
C12_Witness ==
    /\ state = STATE_PLAYING
    /\ high_score > 0
    /\ scroll_y = InitialScroll
    /\ player = PlayerReset
    /\ \E i \in 1 .. Len(obstacles) : obstacles[i].y < TOTAL_ROWS - SAFE_ROWS

\* C13: on every entry to GameOver high_score becomes the larger of its old
\* value and the session's score; no step lowers high_score, and it changes only
\* in a step from Playing to GameOver.
C13_HighScore ==
    [][/\ high_score' >= high_score
       /\ high_score' # high_score
            => state = STATE_PLAYING /\ state' = STATE_GAME_OVER
       /\ (state = STATE_PLAYING /\ state' = STATE_GAME_OVER)
            => high_score' = Max(high_score, PLAYER_START_Y - player.max_row)]_vars

\* C13 witness: a game over whose session scored less than the record it leaves
C13_Witness ==
    /\ state = STATE_GAME_OVER
    /\ high_score > 0
    /\ PLAYER_START_Y - player.max_row < high_score

\* The one track of the manager has an active train (Active), or has none
TrackActive == Len(train_tracks) = 1 /\ train_tracks[1].train # 0
TrackTrainless == Len(train_tracks) = 1 /\ train_tracks[1].train = 0

\* C14: under repeated update(dt) every track with an active train eventually
\* has none again: the train leaves the visible range in its direction of
\* travel, the track clears it and redraws its timer.
C14_ActiveBecomesIdle == TrackActive ~> TrackTrainless

\* C15: an update that spawns a train starts from the Warning state: the track
\* had no train, its warning flag was set and its timer was at most
\* TRAIN_WARNING_TIME; no single update takes a track from Idle to Active.
C15_SpawnOnlyFromWarning ==
    [][(TrackTrainless /\ TrackActive')
        => /\ train_tracks[1].warning
           /\ train_tracks[1].time_until_next_train <= TRAIN_WARNING_TIME * T]_vars

\* The footprint [x, x + width) of obstacle o lies outside [0, GRID_WIDTH), on the
\* side the direction of travel comes from
OffscreenBehind(o, direction) ==
    IF direction > 0 THEN o.x + o.width <= 0 ELSE o.x >= W

\* C16: a track with no active train and time_until_next_train at most
\* TRAIN_WARNING_TIME reports warning; an update that brings the timer to 0 or below
\* spawns a Train on the track's row whose footprint lies wholly outside the world
\* on the side opposite its direction of travel; and warning is false while a
\* train is active.
C16_TrainWarning ==
    /\ []((TrackTrainless
            /\ train_tracks[1].time_until_next_train <= TRAIN_WARNING_TIME * T)
           => IsTrainWarning(train_tracks, train_tracks[1].row_y))
    /\ [](TrackActive => ~IsTrainWarning(train_tracks, train_tracks[1].row_y))
    /\ [][(TrackTrainless /\ TrackTrainless')
            => train_tracks'[1].time_until_next_train > 0]_vars
    /\ [][(TrackTrainless /\ TrackActive')
            => LET train == obstacles'[train_tracks'[1].train] IN
               /\ train_tracks'[1].time_until_next_train <= 0
               /\ train.kind = "Train"
               /\ train.y = train_tracks'[1].row_y
               /\ train.direction = train_tracks'[1].direction
               /\ train.width = TRAIN_WIDTH * Q
               /\ OffscreenBehind(train, train.direction)]_vars

\* C16 witness: a track whose train was spawned by update: the timer has run out
\* and the train is where it was spawned
C16_Witness ==
    /\ TrackActive
    /\ train_tracks[1].time_until_next_train <= 0
    /\ OffscreenBehind(obstacles[train_tracks[1].train], train_tracks[1].direction)

\* The indices of the Trains of the hazard list that are on row row_y
TrainsOnRow(row_y) ==
    {i \in 1 .. Len(obstacles) : obstacles[i].kind = "Train" /\ obstacles[i].y = row_y}

\* C17: after generate_for_row(row, Rail) and any number of updates the hazard
\* list holds at most one Train on the row, and it is the track's active train:
\* none when the track has none, and none without a track.
C17_OneLiveTrainPerTrack ==
    /\ \A k \in 1 .. Len(train_tracks) :
          TrainsOnRow(train_tracks[k].row_y) =
              IF train_tracks[k].train = 0 THEN {} ELSE {train_tracks[k].train}
    /\ \A i \in 1 .. Len(obstacles) :
          obstacles[i].kind = "Train"
              => \E k \in 1 .. Len(train_tracks) : train_tracks[k].row_y = obstacles[i].y

\* C17 witness: a train spawned by update that has travelled into the world
C17_Witness ==
    /\ TrackActive
    /\ train_tracks[1].time_until_next_train <= 0
    /\ LET train == obstacles[train_tracks[1].train] IN
       train.x < W /\ train.x + train.width > 0

\* The player positions the queries are asked for: every x from one cell left of
\* the world to one cell right of it, on the rows that hold hazards and on the
\* first and the last row
QueryXs == (0 - Q) .. (W + Q)
QueryYs == {obstacles[i].y : i \in 1 .. Len(obstacles)} \cup {0, TOTAL_ROWS - 1}

\* C18: check_collision_with_car(px, py) is true exactly when the box [px, px+1)
\* and the box [x, x+width) of some SmartCar, Sedan or Truck on row py share more
\* than a point: touching edges do not collide, and a Log or a Train on the row,
\* or a row without a car, gives false.
C18_CarCollision ==
    \A px \in QueryXs, py \in QueryYs :
        CheckCollisionWithCar(obstacles, px, py)
            <=> \E i \in 1 .. Len(obstacles) :
                    /\ obstacles[i].kind \in {"SmartCar", "Sedan", "Truck"}
                    /\ obstacles[i].y = py
                    /\ Min(px + Q, obstacles[i].x + obstacles[i].width)
                           - Max(px, obstacles[i].x) > 0

\* C18 witness: a car whose left edge the player's right edge touches without a
\* collision, while one unit further the two collide
C18_Witness ==
    \E i \in 1 .. Len(obstacles) :
        LET px == obstacles[i].x - Q IN
        /\ obstacles[i].kind \in CarKinds
        /\ px \in QueryXs
        /\ ~CheckCollisionWithCar(obstacles, px, obstacles[i].y)
        /\ CheckCollisionWithCar(obstacles, px + 1, obstacles[i].y)

\* Obstacle i is a Log on row py that the box [px, px+1) overlaps by 0.25 or more
RidesLog(i, px, py) ==
    /\ obstacles[i].kind = "Log"
    /\ obstacles[i].y = py
    /\ 4 * (Min(px + Q, obstacles[i].x + obstacles[i].width) - Max(px, obstacles[i].x))
           >= Q

\* C19: get_log_at_position(px, py) returns a Log on row py that the player's box
\* overlaps by at least 0.25, the first such log of the hazard list, and None
\* when no log of the row reaches the threshold.
C19_LogRide ==
    \A px \in QueryXs, py \in QueryYs :
        LET log == GetLogAtPosition(obstacles, px, py) IN
        IF log = 0
        THEN \A i \in 1 .. Len(obstacles) : ~RidesLog(i, px, py)
        ELSE /\ log \in 1 .. Len(obstacles)
             /\ RidesLog(log, px, py)
             /\ \A j \in 1 .. (log - 1) : ~RidesLog(j, px, py)

\* C19 witness: a player overlapping a log by exactly 0.25 rides it, and one unit
\* further out, overlapping by 0.125, rides nothing
C19_Witness ==
    \E i \in 1 .. Len(obstacles) :
        LET px == obstacles[i].x - Q + Q \div 4 IN
        /\ obstacles[i].kind = "Log"
        /\ px \in QueryXs /\ (px - 1) \in QueryXs
        /\ GetLogAtPosition(obstacles, px, obstacles[i].y) = i
        /\ GetLogAtPosition(obstacles, px - 1, obstacles[i].y) = 0

\* The wrap span of obstacle o, the edge it leaves the world by and the edge it
\* comes back on
WrapSpan(o) == W + 2 * o.width
ExitEdge(o) == IF o.direction > 0 THEN W + o.width ELSE -o.width
EntryEdge(o) == IF o.direction > 0 THEN -o.width ELSE W + o.width
PastExit(o, x) == IF o.direction > 0 THEN x > ExitEdge(o) ELSE x < ExitEdge(o)

\* Obstacle.update(dt) called n times
RECURSIVE UpdateTimes(_, _, _)
UpdateTimes(o, dt, n) ==
    IF n = 0 THEN o ELSE UpdateTimes(ObstacleUpdate(o, dt), dt, n - 1)

\* C20 as stated: an update keeps every hazard's position modulo its wrap span:
\* the new x is congruent to x + speed * direction * dt, overshoot included.
C20_WrapKeepsResidue ==
    [][\A dt \in 1 .. HazMaxDt, v \in TimerRolls :
        obstacles' = ManagerUpdate(Manager, dt, v).obstacles
        => \A i \in 1 .. Len(obstacles) :
              LET o == obstacles[i] IN
              (obstacles'[i].x - (o.x + o.speed * o.direction * dt)) % WrapSpan(o) = 0]_vars

\* C20 amended: an update moves a hazard by speed * direction * dt, unless that
\* takes it past its exit edge: then it is put back on its entry edge and the
\* overshoot is dropped.  So a hazard on its entry edge, updated with a fixed
\* step, advances step by step and is back on exactly that edge after
\* span \div step + 1 updates.
C20_WrapResetsToEdge ==
    \A i \in 1 .. Len(obstacles), dt \in 1 .. HazMaxDt :
        LET o == obstacles[i]
            step == o.speed * dt
            advanced == o.x + o.direction * step
            period == WrapSpan(o) \div step + 1
        IN  /\ ObstacleUpdate(o, dt).x =
                   IF PastExit(o, advanced) THEN EntryEdge(o) ELSE advanced
            /\ o.x = EntryEdge(o)
                 => /\ UpdateTimes(o, dt, period).x = EntryEdge(o)
                    /\ \A j \in 1 .. (period - 1) :
                          UpdateTimes(o, dt, j).x = o.x + j * o.direction * step

\* C20 witness: a car or a log that has wrapped: it is on its entry edge, and its
\* next wrap drops an overshoot
C20_Witness ==
    \E i \in 1 .. Len(obstacles), dt \in 1 .. HazMaxDt :
        LET o == obstacles[i] IN
        /\ o.kind # "Train"
        /\ o.x = EntryEdge(o)
        /\ WrapSpan(o) % (o.speed * dt) # 0

-----------------------------------------------------------------------------
(* Terrain generation: grass breaks and clusters *)

\* The last pass of the loop was a grass break: the type it drew is dangerous
\* and was not placed (a pass that places a cluster leaves last_terrain_type
\* equal to the type it drew)
JustBroke ==
    /\ gen.pc = "loop"
    /\ gen.terrain_type \in Dangerous
    /\ gen.last_terrain_type = TERRAIN_GRASS

\* C21: after a grass break that leaves rows to fill, the next pass places a
\* cluster of the dangerous type that was drawn before the break, starting on
\* the row immediately beyond the break.
C21_BreakThenDrawnCluster ==
    [][(JustBroke /\ gen.current_row >= 0) =>
          /\ gen'.last_terrain_type = gen.terrain_type
          /\ Len(gen'.rows) > Len(gen.rows)
          /\ gen'.rows[Len(gen.rows) + 1]
                 = TerrainRow(gen.current_row, gen.terrain_type)]_vars

\* rs[i .. j] is a run of consecutive dangerous rows of the sorted world rs
DangerousRun(rs, i, j) ==
    /\ i <= j
    /\ \A k \in i .. j : rs[k].terrain_type \in Dangerous

\* the step is a pass of the loop that places a dangerous cluster
PlacesDangerousCluster ==
    /\ gen.pc = "loop"
    /\ gen'.current_row < gen.current_row
    /\ gen'.last_terrain_type \in Dangerous

\* C22: while every grass-break roll has succeeded, a dangerous cluster is never
\* placed directly after a dangerous cluster, and in the finished world every
\* run of consecutive dangerous rows has one terrain type and at most 3 rows.
C22_ForcedClusterBound ==
    /\ [][(PlacesDangerousCluster /\ gen'.forced) =>
             gen.last_terrain_type \notin Dangerous]_vars
    /\ []((gen.pc = "done" /\ gen.forced) =>
             \A i, j \in 1 .. Len(gen.rows) :
                DangerousRun(gen.rows, i, j) =>
                    /\ j - i + 1 <= 3
                    /\ gen.rows[i].terrain_type = gen.rows[j].terrain_type)

\* C22 witness: a finished world in which every roll succeeded, a break was
\* inserted and a dangerous run of 3 rows exists
C22_Witness ==
    /\ gen.pc = "done"
    /\ gen.forced
    /\ gen.broke
    /\ \E i \in 1 .. (Len(gen.rows) - 2) : DangerousRun(gen.rows, i, i + 2)

\* rs[i .. j] is a run of consecutive rows of terrain type t
SameTypeRun(rs, i, j, t) ==
    /\ i <= j
    /\ \A k \in i .. j : rs[k].terrain_type = t

\* C23 as stated: in the finished world, whatever the draws, a run of Rail rows
\* has length 1 and a run of Road rows or of River rows has length at most 3.
C23_RunSizes ==
    gen.pc = "done" =>
        \A i, j \in 1 .. Len(gen.rows) :
            /\ SameTypeRun(gen.rows, i, j, TERRAIN_TRAIN) => j = i
            /\ SameTypeRun(gen.rows, i, j, TERRAIN_ROAD) => j - i + 1 <= 3
            /\ SameTypeRun(gen.rows, i, j, TERRAIN_RIVER) => j - i + 1 <= 3

\* C23 amended: every pass of the loop places one cluster (or one grass break)
\* on the rows immediately beyond the last, of 1 row for Rail, of 1 to 3 rows
\* for Road and River (1 below progress 0.3, at most 2 below 0.6) and of 1 to 2
\* rows for Grass; the rule bounds clusters, not runs of rows.
C23_ClusterSizes ==
    [][(gen.pc = "loop" /\ gen'.pc = "loop") =>
          LET size == gen.current_row - gen'.current_row
              t == gen'.last_terrain_type
              n == ProgNum(gen.current_row, gen.total)
              p == Playable(gen.total)
          IN  /\ size >= 1
              /\ t = TERRAIN_TRAIN => size = 1
              /\ t = TERRAIN_GRASS => size <= 2
              /\ t \in {TERRAIN_ROAD, TERRAIN_RIVER} =>
                    /\ size <= 3
                    /\ 10 * n < 6 * p => size <= 2
                    /\ 10 * n < 3 * p => size = 1
              /\ Len(gen'.rows) = Len(gen.rows) + size
              /\ \A k \in 1 .. size :
                    gen'.rows[Len(gen.rows) + k]
                        = TerrainRow(gen.current_row - k + 1, t)]_vars

\* C23 witness: a finished world with two adjacent Rail rows, and with a run of
\* more than 3 Road rows or River rows
C23_Witness ==
    /\ gen.pc = "done"
    /\ \E i \in 1 .. (Len(gen.rows) - 1) :
            SameTypeRun(gen.rows, i, i + 1, TERRAIN_TRAIN)
    /\ \E i \in 1 .. (Len(gen.rows) - 3), t \in {TERRAIN_ROAD, TERRAIN_RIVER} :
            SameTypeRun(gen.rows, i, i + 3, t)

\* C24: on every row of the world being generated (progress = n/p for every
\* n in 0..p), the four weights are each >= 0 and sum to 1, river_prob <= 0.25
\* and train_prob <= 0.10 with both caps reached at progress 1, and between any
\* two rows the one with more progress has river_prob and train_prob at least
\* as large and road_prob at most as large.
C24_TerrainProbabilities ==
    gen.pc # "idle" =>
        LET total == gen.total
            p == Playable(total)
        IN  /\ \A r \in 0 .. p :
                /\ GrassProb(r, total) >= 0
                /\ RoadProb(r, total) >= 0
                /\ RiverProb(r, total) >= 0
                /\ TrainProb(r, total) >= 0
                /\ GrassProb(r, total) + RoadProb(r, total) + RiverProb(r, total)
                        + TrainProb(r, total) = ProbDen(total)
                /\ 4 * RiverProb(r, total) <= ProbDen(total)
                /\ 10 * TrainProb(r, total) <= ProbDen(total)
            /\ 4 * RiverProb(0, total) = ProbDen(total)
            /\ 10 * TrainProb(0, total) = ProbDen(total)
            /\ \A r1, r2 \in 0 .. p :
                  ProgNum(r1, total) <= ProgNum(r2, total) =>
                    /\ RiverProb(r1, total) <= RiverProb(r2, total)
                    /\ TrainProb(r1, total) <= TrainProb(r2, total)
                    /\ RoadProb(r1, total) >= RoadProb(r2, total)

\* C24 witness: a Rail cluster was just drawn on a row where river_prob and
\* train_prob are at their caps, in a world that also has a row of positive
\* progress where train_prob is still 0 and a row where river_prob is strictly
\* between 0 and its cap
C24_Witness ==
    /\ gen.pc = "loop"
    /\ gen.last_terrain_type = TERRAIN_TRAIN
    /\ 4 * RiverProb(gen.current_row + 1, gen.total) = ProbDen(gen.total)
    /\ 10 * TrainProb(gen.current_row + 1, gen.total) = ProbDen(gen.total)
    /\ \E r \in 1 .. Playable(gen.total) :
            ProgNum(r, gen.total) > 0 /\ TrainProb(r, gen.total) = 0
    /\ \E r \in 1 .. Playable(gen.total) :
            /\ RiverProb(r, gen.total) > 0
            /\ 4 * RiverProb(r, gen.total) < ProbDen(gen.total)

-----------------------------------------------------------------------------
(* The tick: ordering and frame *)

\* the hazards one step of dt back along their lanes
SteppedBack(obs, dt) ==
    [i \in 1 .. Len(obs) |->
        [obs[i] EXCEPT !.x = @ - obs[i].speed * obs[i].direction * dt]]

\* C25: in a Playing tick that the scroll does not end, the hazards the tick
\* leaves are the moved ones, and the game-over decision is taken against them
\* at the x the player had before the carry: on a Road row the tick ends in
\* GameOver exactly when a moved car covers the player (so a car arriving in
\* this tick kills, and one that has just left does not), on a River row
\* exactly when no moved log is under the player or the carry takes the player
\* out of the world, and on no other row.
C25_TickOrdering ==
    [][LET current_terrain == GetTerrainAt(rows, player.y) IN
        (state = STATE_PLAYING /\ DoUpdate
            /\ player.y * Q < scroll_y' + GRID_HEIGHT * Q)
        => /\ \E dt \in 1 .. MaxDt, v \in TimerRolls :
                obstacles' = ManagerUpdate(Manager, dt, v).obstacles
           /\ current_terrain = TERRAIN_ROAD =>
                (state' = STATE_GAME_OVER
                    <=> CheckCollisionWithCar(obstacles', player.x, player.y))
           /\ current_terrain = TERRAIN_RIVER =>
                (state' = STATE_GAME_OVER
                    <=> \/ GetLogAtPosition(obstacles', player.x, player.y) = 0
                        \/ player'.x < 0
                        \/ player'.x >= W)
           /\ current_terrain \notin {TERRAIN_ROAD, TERRAIN_RIVER} =>
                state' = STATE_PLAYING]_vars

\* C25 witness: a game over on a Road row under a car that, one step back along
\* its lane, did not cover the player whatever the step: the car arrived in
\* the killing tick
C25_Witness ==
    /\ state = STATE_GAME_OVER
    /\ GetTerrainAt(rows, player.y) = TERRAIN_ROAD
    /\ player.y * Q < scroll_y + GRID_HEIGHT * Q
    /\ CheckCollisionWithCar(obstacles, player.x, player.y)
    /\ \A i \in 1 .. Len(obstacles) :
            obstacles[i].y = player.y => obstacles[i].x # EntryEdge(obstacles[i])
    /\ \A dt \in 1 .. MaxDt :
            ~CheckCollisionWithCar(SteppedBack(obstacles, dt), player.x, player.y)

\* One session, from the start screen to its game over. main.py's loop calls
\* update(dt) once per frame, with dt = clock.tick(FPS) / 1000 > 0: the ticks
\* keep coming whatever the player does
FairSeeds == 2          \* scripted random sources of the one-session game

FairSessions == {NewSession(seed) : seed \in 0 .. (FairSeeds - 1)}

SessionInit ==
    /\ state = STATE_START
    /\ player = PlayerReset
    /\ high_score \in 0 .. MaxLoadedHighScore
    /\ scroll_y = 0
    /\ \E s \in FairSessions :
          /\ rows = s.rows
          /\ obstacles = s.obstacles
          /\ trees = s.trees
          /\ train_tracks = s.train_tracks
    /\ gen = GenIdle

SessionStart == state = STATE_START /\ \E s \in FairSessions : StartGame(s)

SessionNext == SessionStart \/ DoUpdate \/ DoMovePlayer

SpecSessionFair == SessionInit /\ [][SessionNext]_vars /\ WF_vars(DoUpdate)

\* C26: with ticks that keep coming, every Playing session reaches GameOver,
\* whatever moves are made between the ticks.
C26_EverySessionEnds == (state = STATE_PLAYING) ~> (state = STATE_GAME_OVER)

\* C26 witness: the longest session: the player reached row 0, the last row
\* there is, and the scroll bottom caught up with it there
C26_Witness ==
    /\ state = STATE_GAME_OVER
    /\ player.y = 0
    /\ scroll_y + GRID_HEIGHT * Q <= 0

\* C27: while the state is Start or GameOver, update(dt) and move_player(dx, dy)
\* leave the state, the player (x, y, max_row), scroll_y, every hazard, every
\* track, the terrain, the trees and high_score as they were.
C27_IdleFrame ==
    [][(state # STATE_PLAYING /\ (DoUpdate \/ DoMovePlayer))
        => UNCHANGED <<state, player, scroll_y, obstacles, train_tracks,
                       high_score, rows, trees>>]_vars

\* C27 witness: a game-over screen over a world with moving hazards, where the
\* player is still above the scroll bottom and has a cell free to move to
C27_Witness ==
    /\ state = STATE_GAME_OVER
    /\ Len(obstacles) > 0
    /\ player.y * Q < scroll_y + GRID_HEIGHT * Q
    /\ \E m \in Moves : ~Rejected(m[1], m[2])

\* The step keeps the terrain, the trees and every hazard's kind, row, width,
\* speed and direction: only x differs, and a hazard that is new is a Train
WorldKept ==
    /\ rows' = rows
    /\ trees' = trees
    /\ Len(obstacles') >= Len(obstacles)
    /\ \A i \in 1 .. Len(obstacles) :
            [obstacles'[i] EXCEPT !.x = obstacles[i].x] = obstacles[i]
    /\ \A i \in (Len(obstacles) + 1) .. Len(obstacles') :
            obstacles'[i].kind = "Train"

\* C28 as stated: while Playing, no update and no move_player changes the
\* terrain, the trees or the cars' and logs' set, row, width, speed and
\* direction, and an update changes nothing but hazard x positions, the
\* tracks, scroll_y, player.x and the state.
C28_TickChangesOnlyMotion ==
    [][/\ (state = STATE_PLAYING /\ scroll_y' = scroll_y /\ DoMovePlayer)
            => WorldKept
       /\ (state = STATE_PLAYING /\ DoUpdate)
            => /\ WorldKept
               /\ player'.y = player.y
               /\ player'.max_row = player.max_row
               /\ high_score' = high_score]_vars

\* C28 amended: the same, except that the update that ends the session also
\* raises high_score to the session's score when that is higher.
C28_NoRegeneration ==
    [][/\ (state = STATE_PLAYING /\ scroll_y' = scroll_y /\ DoMovePlayer)
            => /\ WorldKept
               /\ obstacles' = obstacles
               /\ train_tracks' = train_tracks
               /\ high_score' = high_score
       /\ (state = STATE_PLAYING /\ DoUpdate)
            => /\ WorldKept
               /\ player'.y = player.y
               /\ player'.max_row = player.max_row
               /\ state' = STATE_PLAYING => high_score' = high_score
               /\ state' = STATE_GAME_OVER =>
                     high_score' = Max(high_score, GetScore(player))]_vars

\* C28 witness: a game over that raised high_score, in a world with trees and
\* with a hazard standing on its entry edge, where only a wrap puts a car of
\* the initial spacing
C28_Witness ==
    /\ state = STATE_GAME_OVER
    /\ high_score = GetScore(player)
    /\ high_score > 0
    /\ Len(trees) > 0
    /\ \E i \in 1 .. Len(obstacles) : obstacles[i].x = EntryEdge(obstacles[i])

-----------------------------------------------------------------------------
(* The ObstacleManager of a generated world, with generate_for_row called on  *)
(* rows that already hold hazards                                              *)

\* generate_for_row is called on the first and the last playable row, with the
\* draws of every second scripted source
RegenRows == {0, PlayableRows - 1}
RegenSeeds == {seed \in Seeds : seed % 2 = 1}

Regenerate(row_y, terrain_type, seed) ==
    LET om == GenerateForRow(Manager, row_y, terrain_type, SeedDraws(seed, row_y)) IN
    /\ obstacles' = om.obstacles
    /\ trees' = om.trees
    /\ train_tracks' = om.train_tracks
    /\ UNCHANGED <<state, player, rows, high_score, scroll_y, gen>>

DoRegenerate ==
    \E row_y \in RegenRows, terrain_type \in TerrainTypes, seed \in RegenSeeds :
        Regenerate(row_y, terrain_type, seed)

SpecRegen == Init /\ [][DoRegenerate]_vars

\* the hazards or trees of a list that are on row y, and those that are not
OnRow(list, y) == SelectSeq(list, LAMBDA o : o.y = y)
OffRow(list, y) == SelectSeq(list, LAMBDA o : o.y # y)

\* the tracks of row y (or of the other rows), each with the Train object it
\* holds in place of that object's index in the obstacle list
TracksWithTrains(obs, tracks, y, on) ==
    LET sel == SelectSeq(tracks, LAMBDA t : (t.row_y = y) = on) IN
    [i \in 1 .. Len(sel) |->
        [sel[i] EXCEPT !.train = IF @ = 0 THEN <<>> ELSE <<obs[@]>>]]

\* C29: generate_for_row(row, type) leaves on the row exactly what it would
\* leave there in an empty manager, so nothing that was on the row before:
\* cars only for Road, logs only for River, trees only for Grass, one track and
\* at most its own Train for Rail; the hazards, trees and tracks (each with
\* its train) of every other row are as they were, in the same order.
C29_GenerateReplacesRow ==
    [][\A row_y \in RegenRows, terrain_type \in TerrainTypes, seed \in RegenSeeds :
        Regenerate(row_y, terrain_type, seed) =>
          LET fresh == GenerateForRow(EmptyManager, row_y, terrain_type,
                                      SeedDraws(seed, row_y))
              on == OnRow(obstacles', row_y)
              onTrees == OnRow(trees', row_y)
              onTracks == TracksWithTrains(obstacles', train_tracks', row_y, TRUE)
          IN  /\ on = fresh.obstacles
              /\ onTrees = fresh.trees
              /\ onTracks = TracksWithTrains(fresh.obstacles, fresh.train_tracks,
                                             row_y, TRUE)
              /\ terrain_type = TERRAIN_ROAD =>
                    /\ \A i \in 1 .. Len(on) : on[i].kind \in CarKinds
                    /\ onTrees = <<>> /\ onTracks = <<>>
              /\ terrain_type = TERRAIN_RIVER =>
                    /\ \A i \in 1 .. Len(on) : on[i].kind = "Log"
                    /\ onTrees = <<>> /\ onTracks = <<>>
              /\ terrain_type = TERRAIN_GRASS =>
                    on = <<>> /\ onTracks = <<>>
              /\ terrain_type = TERRAIN_TRAIN =>
                    /\ Len(onTracks) = 1
                    /\ on = onTracks[1].train
                    /\ \A i \in 1 .. Len(on) : on[i].kind = "Train"
                    /\ onTrees = <<>>
              /\ OffRow(obstacles', row_y) = OffRow(obstacles, row_y)
              /\ OffRow(trees', row_y) = OffRow(trees, row_y)
              /\ TracksWithTrains(obstacles', train_tracks', row_y, FALSE)
                    = TracksWithTrains(obstacles, train_tracks, row_y, FALSE)]_vars

\* C29 witness: row 0, generated as a Road row with the world, now holds a
\* track with its Train and nothing else, while another row holds a track with
\* a Train too, and cars, logs and trees stand on further rows
C29_Witness ==
    /\ GetTerrainAt(rows, 0) = TERRAIN_ROAD
    /\ Len(TracksWithTrains(obstacles, train_tracks, 0, TRUE)) = 1
    /\ OnRow(obstacles, 0) = TracksWithTrains(obstacles, train_tracks, 0, TRUE)[1].train
    /\ Len(OnRow(obstacles, 0)) = 1
    /\ OnRow(trees, 0) = <<>>
    /\ \E i \in 1 .. Len(train_tracks) :
            train_tracks[i].row_y # 0 /\ train_tracks[i].train # 0
    /\ Len(trees) > 0

-----------------------------------------------------------------------------
(* Rivers *)

\* the rows of the world whose terrain is River
RiverRows == {r \in 0 .. (Len(rows) - 1) : GetTerrainAt(rows, r) = TERRAIN_RIVER}

-----------------------------------------------------------------------------
(* The player's cell *)

\* C31: while Playing, player.x is a whole number of cells whenever the row
\* under the player is not a River row, and every move_player that moves the
\* player puts it on the integer cell int(x) + dx.
C31_IntegralOffRiver ==
    /\ []((state = STATE_PLAYING
             /\ GetTerrainAt(rows, player.y) # TERRAIN_RIVER) => player.x % Q = 0)
    /\ [][(state = STATE_PLAYING /\ scroll_y' = scroll_y /\ DoMovePlayer
             /\ player' # player)
           => /\ player'.x % Q = 0
              /\ \E m \in Moves : /\ player'.x = (IntOf(player.x) + m[1]) * Q
                                   /\ player'.y = player.y + m[2]]_vars

\* C31 witness: a Playing player on a row that is not River, whose furthest row
\* is a River row: the player has stood on the river and stepped back off it,
\* into a column other than the start column
C31_Witness ==
    /\ state = STATE_PLAYING
    /\ GetTerrainAt(rows, player.y) # TERRAIN_RIVER
    /\ player.max_row \in RiverRows
    /\ player.y = player.max_row + 1
    /\ player.x # PLAYER_START_X * Q

\* C32: in every Playing state the player is inside the world,
\* 0 <= player.x < GRID_WIDTH and 0 <= player.y < TOTAL_ROWS, and
\* get_terrain_at(player.y) returns a terrain type, not None.
C32_PlayerInsideWorld ==
    state = STATE_PLAYING =>
        /\ 0 <= player.x /\ player.x < W
        /\ 0 <= player.y /\ player.y < TOTAL_ROWS
        /\ GetTerrainAt(rows, player.y) \in TerrainTypes

\* C32 witness: a Playing player whom a log has carried into the last cell
\* before the right edge, or into the first cell after the left edge
C32_Witness ==
    /\ state = STATE_PLAYING
    /\ GetTerrainAt(rows, player.y) = TERRAIN_RIVER
    /\ \/ player.x > (GRID_WIDTH - 1) * Q
       \/ 0 < player.x /\ player.x < Q

\* C33: in every Playing state, right after start_game and restart included,
\* no tree stands on the player's cell (int(player.x), player.y).
C33_NoTreeUnderPlayer ==
    state = STATE_PLAYING => ~HasTreeAt(trees, IntOf(player.x), player.y)

====
